---- MODULE Spec2Model ----
(***************************************************************************)
(* A model of snmalloc's Windows platform abstraction layer                *)
(* (src/pal/pal_windows.h, class PALWindows).                              *)
(*                                                                         *)
(* Four specifications share the variables:                                *)
(*   SpecSub     the one-time low-memory subscription made by the          *)
(*               constructors of several threads;                          *)
(*   SpecNotify  the registration of callbacks by several threads and the  *)
(*               delivery of low-memory notifications by the OS;           *)
(*   SpecMem     reserve, notify_using, notify_not_using, zero and plain   *)
(*               stores into memory, against a model of the virtual-memory *)
(*               calls of the operating system.                            *)
(*   SpecBump    the reserve of a build with USE_SYSTEMATIC_TESTING, step  *)
(*               by step, called by several threads at once.               *)
(***************************************************************************)
EXTENDS Integers, Sequences, FiniteSets, TLC

VARIABLES
  status,                       \* "running", or how the process ended
  registered_for_notifications, \* static std::atomic<bool>
  lowMemoryObject,              \* static HANDLE
  waitBound,                    \* the OS holds a wait that calls low_memory
  pc,                           \* per thread: position inside a PAL call
  arg,                          \* per thread: the callback being registered
  curCtor,                      \* per thread: number of the constructor it runs
  nctors,                       \* constructors entered so far
  flipper,                      \* constructors whose exchange returned false
  osCallers,                    \* constructors that made a subscription call
  createCalls,                  \* CreateMemoryResourceNotification calls
  waitCalls,                    \* RegisterWaitForSingleObject calls
  low_memory_callbacks,         \* static PalNotifier: the list of callbacks
  appended,                     \* per client: register calls that appended
  returned,                     \* per client: register calls that returned
  dpc,                          \* dispatcher (OS thread): "idle" or "running"
  dcur,                         \* dispatcher: next position of the list
  invoked,                      \* per client: invocations in this delivery
  appendedAtBegin,              \* appended, when this delivery began
  returnedAtBegin,              \* returned, when this delivery began
  raced,                        \* an append happened during this delivery
  instances,                    \* per thread: it has constructed a PALWindows
  query,                        \* the last expensive_low_memory_check
  build,                        \* the macros this build is compiled with
  pal_features,                 \* static constexpr uint64_t pal_features
  strategy,                     \* the reserve compiled into this build
  reservedPages,                \* pages of reserved address space
  committedPages,               \* the reserved pages that are committed
  mem,                          \* the non-zero bytes of committed memory
  bump_ptr,                     \* systematic_bump_ptr()
  regions,                      \* what reserve has returned, in order
  last,                         \* the last PAL call: arguments, OS calls, result
  prev,                         \* the PAL call before it
  rsv,                          \* per thread: its call of the simulated reserve
  attempts                      \* the attempts of the simulated reserves so far

nvars == <<registered_for_notifications, lowMemoryObject, waitBound, pc, arg,
           curCtor, nctors, flipper, osCallers, createCalls, waitCalls,
           low_memory_callbacks, appended, returned, dpc, dcur, invoked,
           appendedAtBegin, returnedAtBegin, raced, instances, query>>

qvars == <<instances, query>>

mvars == <<build, pal_features, strategy, reservedPages, committedPages, mem, bump_ptr, regions,
           last, prev, rsv, attempts>>

vars == <<status, nvars, mvars>>

----------------------------------------------------------------------------
(* Bounds of the model *)

NThreads == 2
NClients == 2
MaxInstances == 3
MaxRegistrations == 2
NUnits == 1

Threads == 1..NThreads
Clients == 1..NClients

Running == status = "running"

Zeroes == [c \in Clients |-> 0]

----------------------------------------------------------------------------
(* Addresses and pages *)

\* The page size of the platform, in bytes.
OS_PAGE_SIZE == 4096

\* const size_t min_align = 64 * 1024: Windows reserves address space in
\* units of 64 KiB and accepts no smaller alignment.
min_align == 65536

\* size_t retries = 1000
Retries == 1000

\* static size_t bump_ptr = (size_t)0x4000'0000'0000, as a number of 64 KiB
\* units: 0x400000000000 = 1073741824 * 65536.
BumpUnit == 1073741824

\* An address is <<u, o>>: byte o of the 64 KiB unit u, that is u * 65536 + o
\* (the addresses of a 64-bit process do not fit TLC's integers).  The
\* addresses used here stay far below 2^64, so nothing wraps around.
NULL == <<0, 0>>

AddrAdd(a, n) == <<a[1] + (a[2] + n) \div min_align, (a[2] + n) % min_align>>

\* b - a in bytes, for addresses at most 30000 units apart.
Near(a, b) == b[1] - a[1] <= 30000 /\ a[1] - b[1] <= 30000
AddrDiff(b, a) == (b[1] - a[1]) * min_align + b[2] - a[2]

\* a is a byte of [p, p + size)
InRange(a, p, size) ==
  /\ Near(a, p)
  /\ AddrDiff(a, p) >= 0
  /\ AddrDiff(a, p) < size

\* A page is <<u, i>>: page i of unit u.
PageOf(a) == <<a[1], a[2] \div OS_PAGE_SIZE>>
PageBase(q) == <<q[1], q[2] * OS_PAGE_SIZE>>

\* The pages that hold a byte of [p, p + size), size > 0.
PagesOf(p, size) ==
  {PageOf(AddrAdd(p, k * OS_PAGE_SIZE)) : k \in 0..((size - 1) \div OS_PAGE_SIZE)}
    \cup {PageOf(AddrAdd(p, size - 1))}

\* The pages that lie inside [p, p + size) with all their bytes.
PagesInside(p, size) ==
  {q \in PagesOf(p, size) :
     /\ InRange(PageBase(q), p, size)
     /\ InRange(AddrAdd(PageBase(q), OS_PAGE_SIZE - 1), p, size)}

\* is_aligned_block<OS_PAGE_SIZE>(p, size): address and size are both
\* multiples of the page size.
is_aligned_block(p, size) ==
  p[2] % OS_PAGE_SIZE = 0 /\ size % OS_PAGE_SIZE = 0

----------------------------------------------------------------------------
(* The machine: the state a PAL call works on, and its trace *)

Strategies == {"Simulated", "ExtendedAligned", "Plain"}

\* What a build is compiled with: USE_SYSTEMATIC_TESTING is defined or not,
\* and the Windows headers it targets are those of Windows 10 RS5 or newer
\* (NTDDI_WIN10_RS5 is defined, NTDDI_VERSION >= NTDDI_WIN10_RS5 and
\* WINVER >= _WIN32_WINNT_WIN10) or not.
Builds == [USE_SYSTEMATIC_TESTING : BOOLEAN, WIN10_RS5 : BOOLEAN]

\* PLATFORM_HAS_VIRTUALALLOC2 defined whenever the headers allow it.
HAS_VIRTUALALLOC2_in_every_mode(b) == b.WIN10_RS5

\* #define PLATFORM_HAS_VIRTUALALLOC2
PLATFORM_HAS_VIRTUALALLOC2(b) == b.WIN10_RS5 /\ ~b.USE_SYSTEMATIC_TESTING

\* pal_features = LowMemoryNotification [| AlignedAllocation], as the set of
\* the bits that are set.
PalFeatures(b) ==
  {"LowMemoryNotification"}
    \cup (IF PLATFORM_HAS_VIRTUALALLOC2(b) THEN {"AlignedAllocation"} ELSE {})

\* The reserve that #ifdef USE_SYSTEMATIC_TESTING / #elif
\* defined(PLATFORM_HAS_VIRTUALALLOC2) / #else compiles in.
ReserveOf(b) ==
  IF b.USE_SYSTEMATIC_TESTING THEN "Simulated"
  ELSE IF PLATFORM_HAS_VIRTUALALLOC2(b) THEN "ExtendedAligned"
  ELSE "Plain"

\* A build for a Windows older than Windows 10 RS5, without systematic testing.
PlainBuild == [USE_SYSTEMATIC_TESTING |-> FALSE, WIN10_RS5 |-> FALSE]

\* The build is fixed before the program starts.
Compiled(b) ==
  /\ build = b
  /\ pal_features = PalFeatures(b)
  /\ strategy = ReserveOf(b)

\* The state at the start of a PAL call.  calls and rets are the OS calls
\* the PAL call has made and what each returned; errors counts error().
Machine ==
  [res |-> reservedPages, com |-> committedPages, mem |-> mem,
   bump |-> bump_ptr, status |-> status,
   calls |-> << >>, rets |-> << >>, errors |-> 0, ret |-> NULL,
   path |-> "none"]

OsCall(fn, addr, size, type, prot, align) ==
  [fn |-> fn, addr |-> addr, size |-> size, type |-> type, prot |-> prot,
   align |-> align]

Logged(M, call, r) ==
  [M EXCEPT !.calls = Append(@, call), !.rets = Append(@, r)]

\* The bytes of mem outside the pages qs.
WithoutPages(m, qs) == [a \in {b \in DOMAIN m : PageOf(b) \notin qs} |-> m[a]]

\* The bytes of mem outside [p, p + size).
WithoutRange(m, p, size) ==
  [a \in {b \in DOMAIN m : ~InRange(b, p, size)} |-> m[a]]

\* What a load of address a reads (a committed): memory holds its non-zero
\* bytes, every other committed byte is zero.
Load(m, a) == IF a \in DOMAIN m THEN m[a] ELSE 0

----------------------------------------------------------------------------
(* The operating system *)

\* VirtualFree(p, size, MEM_DECOMMIT): every page with a byte in the range
\* loses its backing and its contents; it fails on a page that is not
\* reserved.
VirtualFree(M, p, size) ==
  LET qs == PagesOf(p, size)
      ok == qs \subseteq M.res
      M1 == Logged(M, OsCall("VirtualFree", p, size, {"MEM_DECOMMIT"},
                             "none", 0), ok)
  IN IF ok
       THEN [M1 EXCEPT !.com = @ \ qs, !.mem = WithoutPages(@, qs)]
       ELSE M1

\* VirtualAlloc(p, size, MEM_COMMIT, prot): every page with a byte in the
\* range is backed; a page committed already keeps its contents, a page
\* committed now reads as zero.  It fails on a page that is not reserved, or
\* when the OS refuses.
VirtualAllocCommit(M, p, size, prot, grant) ==
  LET qs == PagesOf(p, size)
      ok == grant /\ qs \subseteq M.res
      M1 == Logged(M, OsCall("VirtualAlloc", p, size, {"MEM_COMMIT"}, prot, 0),
                   IF ok THEN p ELSE NULL)
  IN IF ok THEN [M1 EXCEPT !.com = @ \cup qs] ELSE M1

\* The units of which some page is reserved.
UsedUnits(M) == {q[1] : q \in M.res}

\* The units of address space the OS can hand out: NUnits low ones, and
\* NUnits from where the cursor of the simulated reserve starts, with one
\* more behind them, where a reserve that found them taken succeeds.
AddressSpace == (1..NUnits) \cup (BumpUnit..(BumpUnit + NUnits))

\* The units of the pages qs are free.
Free(M, qs) ==
  /\ {q[1] : q \in qs} \subseteq AddressSpace
  /\ {q[1] : q \in qs} \cap UsedUnits(M) = {}

\* The pages a reservation of [base, end) takes up.
Reserved(M, qs, flags) ==
  [M EXCEPT !.res = @ \cup qs,
            !.com = IF "MEM_COMMIT" \in flags THEN @ \cup qs ELSE @]

\* VirtualAlloc(addr, size, MEM_RESERVE [| MEM_COMMIT], prot) at a given
\* address: the address is rounded down to a multiple of 64 KiB and the pages
\* from there to the end of the range are reserved; it fails when one of the
\* units is in use, or when the OS refuses.
VirtualAllocAt(M, addr, size, flags, prot, grant) ==
  LET base == <<addr[1], 0>>
      qs == PagesOf(base, addr[2] + size)
      ok == grant /\ Free(M, qs)
      M1 == Logged(M, OsCall("VirtualAlloc", addr, size, flags, prot, 0),
                   IF ok THEN base ELSE NULL)
  IN IF ok THEN Reserved(M1, qs, flags) ELSE M1

\* A reservation where the OS chooses the address: unit pick, or a failure
\* (pick = 0); the unit must be free and a multiple of the alignment asked
\* for, and an alignment must be a multiple of 64 KiB.
Placed(M, size, flags, align, pick) ==
  LET base == <<pick, 0>>
      qs == PagesOf(base, size)
  IN /\ pick > 0
     /\ Free(M, qs)
     /\ align % min_align = 0
     /\ align > 0 => (pick % (align \div min_align) = 0)

\* VirtualAlloc(nullptr, size, MEM_RESERVE [| MEM_COMMIT], prot)
VirtualAllocAnywhere(M, size, flags, prot, pick) ==
  LET ok == Placed(M, size, flags, min_align, pick)
      M1 == Logged(M, OsCall("VirtualAlloc", NULL, size, flags, prot, 0),
                   IF ok THEN <<pick, 0>> ELSE NULL)
  IN IF ok THEN Reserved(M1, PagesOf(<<pick, 0>>, size), flags) ELSE M1

\* VirtualAlloc2FromApp(nullptr, nullptr, size, flags, prot, &param, 1) with
\* an address requirement of the given alignment.
VirtualAlloc2FromApp(M, size, flags, prot, align, pick) ==
  LET ok == align >= min_align /\ Placed(M, size, flags, align, pick)
      M1 == Logged(M, OsCall("VirtualAlloc2FromApp", NULL, size, flags, prot,
                             align),
                   IF ok THEN <<pick, 0>> ELSE NULL)
  IN IF ok THEN Reserved(M1, PagesOf(<<pick, 0>>, size), flags) ELSE M1

\* ::memset(p, 0, size): a store to every byte of the range; a byte of a
\* page that is not committed is an access violation, which ends the process.
memset_zero(M, p, size) ==
  IF PagesOf(p, size) \subseteq M.com
    THEN [M EXCEPT !.mem = WithoutRange(@, p, size)]
    ELSE [M EXCEPT !.status = "fault"]

----------------------------------------------------------------------------
(* The PAL calls, as functions of the machine *)

\* assert(cond): a checked precondition; the process ends when it fails.
AssertFailed(M) == [M EXCEPT !.status = "assert_failed"]

\* An error handler that reports and returns (no abort()).
error_returning(M, str) == [M EXCEPT !.errors = @ + 1]

\* error(str): puts(str); fflush(stdout); abort()
error(M, str) == [M EXCEPT !.status = "aborted", !.errors = @ + 1]

\* A notify_not_using that checks its argument and leaves the pages alone.
notify_not_using_keeping(M, p, size) ==
  IF M.status # "running" THEN M
  ELSE IF ~is_aligned_block(p, size) THEN AssertFailed(M)
  ELSE M

\* notify_not_using(p, size)
notify_not_using(M, p, size) ==
  IF M.status # "running" THEN M
  ELSE IF ~is_aligned_block(p, size) THEN AssertFailed(M)
  ELSE LET M1 == VirtualFree(M, p, size)
       IN IF ~M1.rets[Len(M1.rets)]
            THEN error(M1, "VirtualFree failed")
            ELSE M1

\* A notify_using that commits from the start of the page of p.
notify_using_from_page(M, zero_mem, p, size, grant) ==
  IF M.status # "running" THEN M
  ELSE IF ~(is_aligned_block(p, size) \/ zero_mem = "NoZero")
    THEN AssertFailed(M)
  ELSE LET M1 == VirtualAllocCommit(M, PageBase(PageOf(p)), size,
                                    "PAGE_READWRITE", grant)
       IN IF M1.rets[Len(M1.rets)] = NULL
            THEN error(M1, "out of memory")
            ELSE M1

\* A notify_using that asks for a page-aligned region whatever zero_mem is.
notify_using_strict(M, zero_mem, p, size, grant) ==
  IF M.status # "running" THEN M
  ELSE IF ~is_aligned_block(p, size) THEN AssertFailed(M)
  ELSE LET M1 == VirtualAllocCommit(M, p, size, "PAGE_READWRITE", grant)
       IN IF M1.rets[Len(M1.rets)] = NULL
            THEN error(M1, "out of memory")
            ELSE M1

\* notify_using<zero_mem>(p, size)
notify_using(M, zero_mem, p, size, grant) ==
  IF M.status # "running" THEN M
  ELSE IF ~(is_aligned_block(p, size) \/ zero_mem = "NoZero")
    THEN AssertFailed(M)
  ELSE LET M1 == VirtualAllocCommit(M, p, size, "PAGE_READWRITE", grant)
       IN IF M1.rets[Len(M1.rets)] = NULL
            THEN error(M1, "out of memory")
            ELSE M1

\* A zero that fills nothing when the region is not page-aligned.
zero_not_filling(M, page_aligned, p, size, grant) ==
  IF page_aligned \/ is_aligned_block(p, size)
    THEN IF ~is_aligned_block(p, size)
           THEN AssertFailed(M)
           ELSE notify_using(
                  notify_not_using([M EXCEPT !.path = "recommit"], p, size),
                  "YesZero", p, size, grant)
    ELSE [M EXCEPT !.path = "memset"]

\* A zero that fills from the start of the page of p.
zero_from_page(M, page_aligned, p, size, grant) ==
  IF page_aligned \/ is_aligned_block(p, size)
    THEN IF ~is_aligned_block(p, size)
           THEN AssertFailed(M)
           ELSE notify_using(
                  notify_not_using([M EXCEPT !.path = "recommit"], p, size),
                  "YesZero", p, size, grant)
    ELSE memset_zero([M EXCEPT !.path = "memset"], PageBase(PageOf(p)),
                     size + (p[2] % OS_PAGE_SIZE))

\* A zero that looks at the region only, and fills a misaligned one byte by
\* byte whatever the hint says.
zero_ignoring_hint(M, page_aligned, p, size, grant) ==
  IF is_aligned_block(p, size)
    THEN notify_using(
           notify_not_using([M EXCEPT !.path = "recommit"], p, size),
           "YesZero", p, size, grant)
    ELSE memset_zero([M EXCEPT !.path = "memset"], p, size)

\* zero<page_aligned>(p, size)
zero(M, page_aligned, p, size, grant) ==
  IF page_aligned \/ is_aligned_block(p, size)
    THEN IF ~is_aligned_block(p, size)
           THEN AssertFailed(M)
           ELSE notify_using(
                  notify_not_using([M EXCEPT !.path = "recommit"], p, size),
                  "YesZero", p, size, grant)
    ELSE memset_zero([M EXCEPT !.path = "memset"], p, size)

\* Flags without the commit bit (the `flags |= MEM_COMMIT` left out).
Flags_reserve_only(committed) == {"MEM_RESERVE"}

\* DWORD flags = MEM_RESERVE; if (committed) flags |= MEM_COMMIT;
Flags(committed) ==
  IF committed THEN {"MEM_RESERVE", "MEM_COMMIT"} ELSE {"MEM_RESERVE"}

\* A turn of the loop that moves the cursor only when the attempt failed.
reserve_attempt_keeping_cursor(M, flags, size, refusals) ==
  IF M.ret # NULL THEN M
  ELSE LET M1 == VirtualAllocAt(M, M.bump, size, flags, "PAGE_READWRITE",
                                Len(M.calls) >= refusals)
           r == M1.rets[Len(M1.rets)]
       IN [M1 EXCEPT !.bump = IF r = NULL THEN AddrAdd(@, size) ELSE @,
                     !.ret = r]

\* One turn of the loop of reserve<committed>(size) under
\* USE_SYSTEMATIC_TESTING:
\*   p = VirtualAlloc((void*)systematic_bump_ptr(), size, flags, ...);
\*   systematic_bump_ptr() += size; retries--;
\* The loop is left once p is not null, so a later turn does nothing.  The
\* OS refuses the first `refusals` attempts for reasons of its own.
reserve_attempt(M, flags, size, refusals) ==
  IF M.ret # NULL THEN M
  ELSE LET M1 == VirtualAllocAt(M, M.bump, size, flags, "PAGE_READWRITE",
                                Len(M.calls) >= refusals)
       IN [M1 EXCEPT !.bump = AddrAdd(@, size), !.ret = M1.rets[Len(M1.rets)]]

\* n turns of the loop, one after the other (halved, to keep the evaluation
\* shallow).
RECURSIVE reserve_attempts(_, _, _, _, _)
reserve_attempts(M, flags, size, n, refusals) ==
  IF n = 1
    THEN reserve_attempt(M, flags, size, refusals)
    ELSE LET H == reserve_attempts(M, flags, size, n \div 2, refusals)
         IN IF H.ret # NULL
              THEN H
              ELSE reserve_attempts(H, flags, size, n - n \div 2, refusals)

\* A simulated reserve that reports a failure like the other two.
reserve_simulated_fatal(M, committed, size, refusals) ==
  LET M1 == reserve_attempts(M, Flags(committed), size, Retries, refusals)
  IN IF M1.ret = NULL THEN error(M1, "Failed to allocate memory\n") ELSE M1

\* reserve<committed>(size) under USE_SYSTEMATIC_TESTING: do ... while
\* (p == nullptr && retries > 0), with retries = 1000 at first.
reserve_simulated(M, committed, size, refusals) ==
  reserve_attempts(M, Flags(committed), size, Retries, refusals)

\* An aligned reserve that passes the alignment on as it is.
reserve_aligned_no_floor(M, committed, size, align, pick) ==
  LET M1 == VirtualAlloc2FromApp(M, size, Flags(committed), "PAGE_READWRITE",
                                 align, pick)
      ret == M1.rets[Len(M1.rets)]
      M2 == [M1 EXCEPT !.ret = ret]
  IN IF ret = NULL THEN error(M2, "Failed to allocate memory\n") ELSE M2

\* reserve<committed>(size, align) under PLATFORM_HAS_VIRTUALALLOC2
reserve_aligned(M, committed, size, align, pick) ==
  LET a == IF align < min_align THEN min_align ELSE align
      M1 == VirtualAlloc2FromApp(M, size, Flags(committed), "PAGE_READWRITE",
                                 a, pick)
      ret == M1.rets[Len(M1.rets)]
      M2 == [M1 EXCEPT !.ret = ret]
  IN IF ret = NULL THEN error(M2, "Failed to allocate memory\n") ELSE M2

\* reserve<committed>(size), the plain one
reserve_plain(M, committed, size, pick) ==
  LET M1 == VirtualAllocAnywhere(M, size, Flags(committed), "PAGE_READWRITE",
                                 pick)
      ret == M1.rets[Len(M1.rets)]
      M2 == [M1 EXCEPT !.ret = ret]
  IN IF ret = NULL THEN error(M2, "Failed to allocate memory\n") ELSE M2


NoCall ==
  [op |-> "none", p |-> NULL, size |-> 0, flag |-> FALSE, align |-> 0,
   calls |-> << >>, rets |-> << >>, errors |-> 0, ret |-> NULL,
   path |-> "none", dirty |-> FALSE]

\* prev, unless the call before the last one was a notify_using or a
\* notify_not_using of the same range.
NoPrev == [op |-> "other", dirty |-> FALSE]

\* A thread that is not inside reserve.
NoReserve ==
  [pc |-> "idle", size |-> 0, committed |-> FALSE, retries |-> 0,
   addr |-> NULL, tmp |-> NULL, p |-> NULL]

\* No attempt has been made.
NoAttempts == [sum |-> 0, wins |-> {}, twice |-> FALSE, fell |-> FALSE]

MemInit ==
  /\ reservedPages = {}
  /\ committedPages = {}
  /\ mem = << >>
  /\ bump_ptr = <<BumpUnit, 0>>
  /\ regions = << >>
  /\ last = NoCall
  /\ prev = NoPrev
  /\ rsv = [t \in Threads |-> NoReserve]
  /\ attempts = NoAttempts

----------------------------------------------------------------------------
(* The constructor: PALWindows::PALWindows() *)

\* A thread starts to construct a PALWindows.
CtorCall(t) ==
  /\ Running
  /\ pc[t] = "idle"
  /\ nctors < MaxInstances
  /\ nctors' = nctors + 1
  /\ pc' = [pc EXCEPT ![t] = "exchange"]
  /\ curCtor' = [curCtor EXCEPT ![t] = nctors + 1]
  /\ UNCHANGED <<status, mvars, qvars, registered_for_notifications, lowMemoryObject,
                 waitBound, arg, flipper, osCallers, createCalls, waitCalls,
                 low_memory_callbacks, appended, returned, dpc, dcur, invoked,
                 appendedAtBegin, returnedAtBegin, raced>>

\* A constructor that only reads the flag (load() in place of exchange(true)).
CtorLoadOnly(t) ==
  /\ Running
  /\ pc[t] = "exchange"
  /\ IF ~registered_for_notifications
       THEN /\ pc' = [pc EXCEPT ![t] = "create"]
            /\ flipper' = flipper \cup {curCtor[t]}
            /\ UNCHANGED <<curCtor, instances>>
       ELSE /\ pc' = [pc EXCEPT ![t] = "idle"]
            /\ curCtor' = [curCtor EXCEPT ![t] = 0]
            /\ instances' = [instances EXCEPT ![t] = TRUE]
            /\ UNCHANGED flipper
  /\ UNCHANGED <<status, mvars, query, registered_for_notifications, lowMemoryObject,
                 waitBound, arg, nctors, osCallers, createCalls, waitCalls,
                 low_memory_callbacks, appended, returned, dpc, dcur, invoked,
                 appendedAtBegin, returnedAtBegin, raced>>

\* registered_for_notifications.exchange(true), and the branch on its result.
\* A constructor that reads true returns at once.
CtorExchange(t) ==
  /\ Running
  /\ pc[t] = "exchange"
  /\ registered_for_notifications' = TRUE
  /\ IF ~registered_for_notifications
       THEN /\ pc' = [pc EXCEPT ![t] = "create"]
            /\ flipper' = flipper \cup {curCtor[t]}
            /\ UNCHANGED <<curCtor, instances>>
       ELSE /\ pc' = [pc EXCEPT ![t] = "idle"]
            /\ curCtor' = [curCtor EXCEPT ![t] = 0]
            /\ instances' = [instances EXCEPT ![t] = TRUE]
            /\ UNCHANGED flipper
  /\ UNCHANGED <<status, mvars, query, lowMemoryObject, waitBound, arg, nctors,
                 osCallers,
                 createCalls, waitCalls, low_memory_callbacks, appended,
                 returned, dpc, dcur, invoked, appendedAtBegin,
                 returnedAtBegin, raced>>

\* lowMemoryObject = CreateMemoryResourceNotification(...): the OS returns a
\* handle, or NULL when it fails; the result is stored unchecked.
CtorCreate(t) ==
  /\ Running
  /\ pc[t] = "create"
  /\ \E h \in {"handle", "NULL"} : lowMemoryObject' = h
  /\ createCalls' = createCalls + 1
  /\ osCallers' = osCallers \cup {curCtor[t]}
  /\ pc' = [pc EXCEPT ![t] = "wait"]
  /\ UNCHANGED <<status, mvars, qvars, registered_for_notifications, waitBound, arg,
                 curCtor, nctors, flipper, waitCalls, low_memory_callbacks,
                 appended, returned, dpc, dcur, invoked, appendedAtBegin,
                 returnedAtBegin, raced>>

\* A constructor that clears the flag when the subscription has failed, so
\* that a later constructor tries again.
CtorRegisterWaitRetrying(t) ==
  /\ Running
  /\ pc[t] = "wait"
  /\ \E ok \in BOOLEAN :
       /\ waitBound' = (ok /\ lowMemoryObject = "handle")
       /\ registered_for_notifications' = (ok /\ lowMemoryObject = "handle")
  /\ waitCalls' = waitCalls + 1
  /\ osCallers' = osCallers \cup {curCtor[t]}
  /\ pc' = [pc EXCEPT ![t] = "idle"]
  /\ curCtor' = [curCtor EXCEPT ![t] = 0]
  /\ instances' = [instances EXCEPT ![t] = TRUE]
  /\ UNCHANGED <<status, mvars, query, lowMemoryObject, arg,
                 nctors, flipper, createCalls, low_memory_callbacks,
                 appended, returned, dpc, dcur, invoked, appendedAtBegin,
                 returnedAtBegin, raced>>

\* RegisterWaitForSingleObject(&waitObject, lowMemoryObject, low_memory, ...):
\* the result is ignored; the wait exists only if the handle is valid and the
\* OS accepts the call.  The constructor then returns.
CtorRegisterWait(t) ==
  /\ Running
  /\ pc[t] = "wait"
  /\ \E ok \in BOOLEAN : waitBound' = (ok /\ lowMemoryObject = "handle")
  /\ waitCalls' = waitCalls + 1
  /\ osCallers' = osCallers \cup {curCtor[t]}
  /\ pc' = [pc EXCEPT ![t] = "idle"]
  /\ curCtor' = [curCtor EXCEPT ![t] = 0]
  /\ instances' = [instances EXCEPT ![t] = TRUE]
  /\ UNCHANGED <<status, mvars, query, registered_for_notifications, lowMemoryObject, arg,
                 nctors, flipper, createCalls, low_memory_callbacks,
                 appended, returned, dpc, dcur, invoked, appendedAtBegin,
                 returnedAtBegin, raced>>

\* expensive_low_memory_check(), on an instance whose constructor has
\* returned: QueryMemoryResourceNotification(lowMemoryObject, &result);
\* return result.  The handle is read without synchronisation: it is what
\* lowMemoryObject holds at this moment, stored by the subscription or not.
\* With a handle the OS writes the pressure state to result; without one the
\* call fails and result is returned uninitialised: any value in both cases.
expensive_low_memory_check(t) ==
  /\ Running
  /\ pc[t] = "idle"
  /\ instances[t]
  /\ \E r \in BOOLEAN :
       query' = [by |-> t, handle |-> lowMemoryObject,
                 stored |-> createCalls > 0, result |-> r]
  /\ UNCHANGED <<status, mvars, instances, registered_for_notifications,
                 lowMemoryObject, waitBound, pc, arg, curCtor, nctors,
                 flipper, osCallers, createCalls, waitCalls,
                 low_memory_callbacks, appended, returned, dpc, dcur, invoked,
                 appendedAtBegin, returnedAtBegin, raced>>

----------------------------------------------------------------------------
(* The list of callbacks: PalNotifier *)

\* PalNotifier::register_notification: the callback goes to the end of the
\* list, in one atomic step.
register_notification(list, c) == Append(list, c)

\* How often client c is in the list.
Count(list, c) == Cardinality({i \in 1..Len(list) : list[i] = c})

\* A thread calls register_for_low_memory_callback(callback).
RegisterCall(t) ==
  /\ Running
  /\ pc[t] = "idle"
  /\ Len(low_memory_callbacks) < MaxRegistrations
  /\ \E c \in Clients : arg' = [arg EXCEPT ![t] = c]
  /\ pc' = [pc EXCEPT ![t] = "append"]
  /\ UNCHANGED <<status, mvars, qvars, registered_for_notifications, lowMemoryObject,
                 waitBound, curCtor, nctors, flipper, osCallers, createCalls,
                 waitCalls, low_memory_callbacks, appended, returned, dpc,
                 dcur, invoked, appendedAtBegin, returnedAtBegin, raced>>

\* A registration that forgets a callback registered earlier: it overwrites
\* the last entry of the list instead of adding one.
register_overwriting_tail(t) ==
  /\ Running
  /\ pc[t] = "append"
  /\ low_memory_callbacks' =
       IF low_memory_callbacks = << >>
         THEN <<arg[t]>>
         ELSE [low_memory_callbacks EXCEPT ![Len(low_memory_callbacks)] = arg[t]]
  /\ appended' = [appended EXCEPT ![arg[t]] = @ + 1]
  /\ raced' = (raced \/ dpc = "running")
  /\ pc' = [pc EXCEPT ![t] = "return"]
  /\ UNCHANGED <<status, mvars, qvars, registered_for_notifications, lowMemoryObject,
                 waitBound, arg, curCtor, nctors, flipper, osCallers,
                 createCalls, waitCalls, returned, dpc, dcur, invoked,
                 appendedAtBegin, returnedAtBegin>>

\* A registration that drops a callback that is already in the list.
register_deduplicating(t) ==
  /\ Running
  /\ pc[t] = "append"
  /\ low_memory_callbacks' =
       IF Count(low_memory_callbacks, arg[t]) > 0
         THEN low_memory_callbacks
         ELSE register_notification(low_memory_callbacks, arg[t])
  /\ appended' = [appended EXCEPT ![arg[t]] = @ + 1]
  /\ raced' = (raced \/ dpc = "running")
  /\ pc' = [pc EXCEPT ![t] = "return"]
  /\ UNCHANGED <<status, mvars, qvars, registered_for_notifications, lowMemoryObject,
                 waitBound, arg, curCtor, nctors, flipper, osCallers,
                 createCalls, waitCalls, returned, dpc, dcur, invoked,
                 appendedAtBegin, returnedAtBegin>>

\* register_for_low_memory_callback(callback):
\*   low_memory_callbacks.register_notification(callback)
register_for_low_memory_callback(t) ==
  /\ Running
  /\ pc[t] = "append"
  /\ low_memory_callbacks' =
       register_notification(low_memory_callbacks, arg[t])
  /\ appended' = [appended EXCEPT ![arg[t]] = @ + 1]
  /\ raced' = (raced \/ dpc = "running")
  /\ pc' = [pc EXCEPT ![t] = "return"]
  /\ UNCHANGED <<status, mvars, qvars, registered_for_notifications, lowMemoryObject,
                 waitBound, arg, curCtor, nctors, flipper, osCallers,
                 createCalls, waitCalls, returned, dpc, dcur, invoked,
                 appendedAtBegin, returnedAtBegin>>

\* register_for_low_memory_callback returns to its caller.
RegisterReturn(t) ==
  /\ Running
  /\ pc[t] = "return"
  /\ returned' = [returned EXCEPT ![arg[t]] = @ + 1]
  /\ pc' = [pc EXCEPT ![t] = "idle"]
  /\ UNCHANGED <<status, mvars, qvars, registered_for_notifications, lowMemoryObject,
                 waitBound, arg, curCtor, nctors, flipper, osCallers,
                 createCalls, waitCalls, low_memory_callbacks, appended,
                 dpc, dcur, invoked, appendedAtBegin, returnedAtBegin, raced>>

----------------------------------------------------------------------------
(* Delivery of a low-memory notification, on a thread of the OS *)

\* The OS signals memory pressure and calls low_memory(): notify_all() starts
\* at the head of the list.  The OS calls it only through the wait that the
\* constructor registered.
low_memory ==
  /\ Running
  /\ waitBound
  /\ dpc = "idle"
  /\ dpc' = "running"
  /\ dcur' = 1
  /\ invoked' = Zeroes
  /\ appendedAtBegin' = appended
  /\ returnedAtBegin' = returned
  /\ raced' = FALSE
  /\ UNCHANGED <<status, mvars, qvars, registered_for_notifications, lowMemoryObject,
                 waitBound, pc, arg, curCtor, nctors, flipper, osCallers,
                 createCalls, waitCalls, low_memory_callbacks, appended,
                 returned>>

\* PalNotifier::notify_all, one callback: invoke it and move to the next.
NotifyNext ==
  /\ Running
  /\ dpc = "running"
  /\ dcur <= Len(low_memory_callbacks)
  /\ invoked' = [invoked EXCEPT ![low_memory_callbacks[dcur]] = @ + 1]
  /\ dcur' = dcur + 1
  /\ UNCHANGED <<status, mvars, qvars, registered_for_notifications, lowMemoryObject,
                 waitBound, pc, arg, curCtor, nctors, flipper, osCallers,
                 createCalls, waitCalls, low_memory_callbacks, appended,
                 returned, dpc, appendedAtBegin, returnedAtBegin, raced>>

\* PalNotifier::notify_all: the end of the list is reached, low_memory returns.
NotifyEnd ==
  /\ Running
  /\ dpc = "running"
  /\ dcur > Len(low_memory_callbacks)
  /\ dpc' = "done"
  /\ UNCHANGED <<status, mvars, qvars, registered_for_notifications, lowMemoryObject,
                 waitBound, pc, arg, curCtor, nctors, flipper, osCallers,
                 createCalls, waitCalls, low_memory_callbacks, appended,
                 returned, dcur, invoked, appendedAtBegin, returnedAtBegin,
                 raced>>

\* The dispatcher thread goes back to the OS's pool.
DispatcherIdle ==
  /\ Running
  /\ dpc = "done"
  /\ dpc' = "idle"
  /\ UNCHANGED <<status, mvars, qvars, registered_for_notifications, lowMemoryObject,
                 waitBound, pc, arg, curCtor, nctors, flipper, osCallers,
                 createCalls, waitCalls, low_memory_callbacks, appended,
                 returned, dcur, invoked, appendedAtBegin, returnedAtBegin,
                 raced>>

----------------------------------------------------------------------------

\* No expensive_low_memory_check has been made.
NoQuery == [by |-> 0, handle |-> "NULL", stored |-> FALSE, result |-> FALSE]

NotifyInit ==
  /\ registered_for_notifications = FALSE
  /\ lowMemoryObject = "NULL"
  /\ waitBound = FALSE
  /\ pc = [t \in Threads |-> "idle"]
  /\ arg = [t \in Threads |-> 1]
  /\ curCtor = [t \in Threads |-> 0]
  /\ nctors = 0
  /\ flipper = {}
  /\ osCallers = {}
  /\ createCalls = 0
  /\ waitCalls = 0
  /\ low_memory_callbacks = << >>
  /\ appended = Zeroes
  /\ returned = Zeroes
  /\ dpc = "idle"
  /\ dcur = 1
  /\ invoked = Zeroes
  /\ appendedAtBegin = Zeroes
  /\ returnedAtBegin = Zeroes
  /\ raced = FALSE
  /\ instances = [t \in Threads |-> FALSE]
  /\ query = NoQuery

\* The static state after a first constructor has run and the OS has
\* accepted its subscription.
Subscribed ==
  /\ registered_for_notifications = TRUE
  /\ lowMemoryObject = "handle"
  /\ waitBound = TRUE
  /\ pc = [t \in Threads |-> "idle"]
  /\ arg = [t \in Threads |-> 1]
  /\ curCtor = [t \in Threads |-> 0]
  /\ nctors = 1
  /\ flipper = {1}
  /\ osCallers = {1}
  /\ createCalls = 1
  /\ waitCalls = 1
  /\ low_memory_callbacks = << >>
  /\ appended = Zeroes
  /\ returned = Zeroes
  /\ dpc = "idle"
  /\ dcur = 1
  /\ invoked = Zeroes
  /\ appendedAtBegin = Zeroes
  /\ returnedAtBegin = Zeroes
  /\ raced = FALSE
  /\ instances = [t \in Threads |-> FALSE]
  /\ query = NoQuery

\* The constructors of several threads.  The notifier is the same in every
\* build.
InitS ==
  /\ status = "running"
  /\ NotifyInit
  /\ Compiled(PlainBuild)
  /\ MemInit

NextS ==
  \/ \E t \in Threads : CtorCall(t)
  \/ \E t \in Threads : CtorExchange(t)
  \/ \E t \in Threads : CtorCreate(t)
  \/ \E t \in Threads : CtorRegisterWait(t)
  \/ \E t \in Threads : expensive_low_memory_check(t)

SpecSub == InitS /\ [][NextS]_vars

\* Registrations and deliveries, once the subscription is made.
InitN ==
  /\ status = "running"
  /\ Subscribed
  /\ Compiled(PlainBuild)
  /\ MemInit

NextN ==
  \/ \E t \in Threads : RegisterCall(t)
  \/ \E t \in Threads : register_for_low_memory_callback(t)
  \/ \E t \in Threads : RegisterReturn(t)
  \/ low_memory
  \/ NotifyNext
  \/ NotifyEnd
  \/ DispatcherIdle

SpecNotify == InitN /\ [][NextN]_vars

----------------------------------------------------------------------------
(* The PAL calls, as steps of the allocator (one thread) *)

\* Sizes and alignments the allocator asks for, the places of a region it
\* works on, and the bytes it stores to.
ReserveSizes == {OS_PAGE_SIZE, 2 * OS_PAGE_SIZE}
Aligns == {OS_PAGE_SIZE, min_align, 2 * min_align}
Refusals == {0, 1, Retries}
\* The ranges <<offset, size>> of a region: all of it, its first page, and
\* two bytes inside the first page.
Ranges(r) == {<<0, r.size>>, <<0, OS_PAGE_SIZE>>, <<1, 2>>}
Probes == {0, 1, OS_PAGE_SIZE}
\* A store writes a zero byte or a byte that is not zero.
Bytes == {0, 255}

\* Some byte of [p, p + size) is not zero.
Dirty(m, p, size) == \E a \in DOMAIN m : InRange(a, p, size)

\* The allocator works on the region that it reserved last.
Working == regions # << >>
Current == regions[Len(regions)]

\* What a call leaves behind: the memory, and the record of the call.
Done(M, op, p, size, flag, align) ==
  /\ reservedPages' = M.res
  /\ committedPages' = M.com
  /\ mem' = M.mem
  /\ bump_ptr' = M.bump
  /\ status' = M.status
  /\ last' = [op |-> op, p |-> p, size |-> size, flag |-> flag,
              align |-> align, calls |-> M.calls, rets |-> M.rets,
              errors |-> M.errors, ret |-> M.ret, path |-> M.path,
              dirty |-> Dirty(mem, p, size)]
  /\ prev' = IF last.op \in {"notify_using", "notify_not_using"}
                  /\ last.p = p /\ last.size = size
                THEN [op |-> last.op, dirty |-> last.dirty]
                ELSE NoPrev
  /\ UNCHANGED <<build, pal_features, strategy, nvars, rsv, attempts>>

Reserved_(M, committed, size) ==
  regions' = IF M.status = "running"
               THEN Append(regions, [base |-> M.ret, size |-> size,
                                     committed |-> committed])
               ELSE regions

\* The allocator reserves its regions before it works on them.  Under
\* USE_SYSTEMATIC_TESTING it stops reserving once the cursor has left the
\* address space of the model.
Reserving ==
  /\ last.op \in {"none", "reserve"}
  /\ bump_ptr[1] < BumpUnit + NUnits

ReserveSimulated ==
  /\ Running
  /\ strategy = "Simulated"
  /\ Reserving
  /\ \E committed \in BOOLEAN, size \in ReserveSizes, refusals \in Refusals :
       LET M == reserve_simulated(Machine, committed, size, refusals)
       IN /\ Done(M, "reserve", NULL, size, committed, 0)
          /\ Reserved_(M, committed, size)

ReserveAligned ==
  /\ Running
  /\ strategy = "ExtendedAligned"
  /\ Reserving
  /\ \E committed \in BOOLEAN, size \in ReserveSizes, align \in Aligns,
        pick \in 0..NUnits :
       LET M == reserve_aligned(Machine, committed, size, align, pick)
       IN /\ Done(M, "reserve", NULL, size, committed, align)
          /\ Reserved_(M, committed, size)

ReservePlain ==
  /\ Running
  /\ strategy = "Plain"
  /\ Reserving
  /\ \E committed \in BOOLEAN, size \in ReserveSizes, pick \in 0..NUnits :
       LET M == reserve_plain(Machine, committed, size, pick)
       IN /\ Done(M, "reserve", NULL, size, committed, 0)
          /\ Reserved_(M, committed, size)

NotifyUsing ==
  /\ Running
  /\ Working
  /\ \E g \in Ranges(Current), zero_mem \in {"NoZero", "YesZero"},
        grant \in BOOLEAN :
       Done(notify_using(Machine, zero_mem, AddrAdd(Current.base, g[1]),
                         g[2], grant),
            "notify_using", AddrAdd(Current.base, g[1]), g[2], zero_mem, 0)
  /\ UNCHANGED regions

NotifyNotUsing ==
  /\ Running
  /\ Working
  /\ \E g \in Ranges(Current) :
       Done(notify_not_using(Machine, AddrAdd(Current.base, g[1]), g[2]),
            "notify_not_using", AddrAdd(Current.base, g[1]), g[2], FALSE, 0)
  /\ UNCHANGED regions

Zero ==
  /\ Running
  /\ Working
  /\ \E g \in Ranges(Current), page_aligned \in BOOLEAN, grant \in BOOLEAN :
       Done(zero(Machine, page_aligned, AddrAdd(Current.base, g[1]), g[2],
                 grant),
            "zero", AddrAdd(Current.base, g[1]), g[2], page_aligned, 0)
  /\ UNCHANGED regions

\* The allocator stores byte v at an address of a region; a store to a page
\* that is not committed is an access violation.
Store ==
  /\ Running
  /\ Working
  /\ \E off \in Probes, v \in Bytes :
       LET a == AddrAdd(Current.base, off)
           M == IF PageOf(a) \in committedPages
                  THEN [Machine EXCEPT !.mem =
                          IF v = 0
                            THEN WithoutRange(mem, a, 1)
                            ELSE [b \in DOMAIN mem \cup {a} |->
                                    IF b = a THEN v ELSE mem[b]]]
                  ELSE [Machine EXCEPT !.status = "fault"]
       IN Done(M, "store", a, 1, v, 0)
  /\ UNCHANGED regions

InitM ==
  /\ status = "running"
  /\ NotifyInit
  /\ \E b \in Builds : Compiled(b)
  /\ MemInit

NextM ==
  \/ ReserveSimulated
  \/ ReserveAligned
  \/ ReservePlain
  \/ NotifyUsing
  \/ NotifyNotUsing
  \/ Zero
  \/ Store

SpecMem == InitM /\ [][NextM]_vars

----------------------------------------------------------------------------
(* The simulated reserve, statement by statement, on several threads *)

\* Address a is below address b.
Below(a, b) == a[1] < b[1] \/ (a[1] = b[1] /\ a[2] < b[2])

\* What a step of the simulated reserve leaves alone.
ReserveFrame ==
  UNCHANGED <<status, nvars, build, pal_features, strategy, mem, regions,
              last, prev>>

\* The address space of the model has a free unit at or above the cursor.
RoomAhead ==
  \E u \in AddressSpace : u >= bump_ptr[1] /\ u \notin UsedUnits(Machine)

\* A thread calls reserve<committed>(size): flags are set, retries = 1000.
\* Each thread makes one call, and the allocator calls while there is
\* address space left to reserve.
ReserveEnter(t) ==
  /\ Running
  /\ strategy = "Simulated"
  /\ rsv[t].pc = "idle"
  /\ RoomAhead
  /\ \E committed \in BOOLEAN, size \in ReserveSizes :
       rsv' = [rsv EXCEPT ![t] =
                 [NoReserve EXCEPT !.pc = "read", !.size = size,
                                   !.committed = committed,
                                   !.retries = Retries]]
  /\ UNCHANGED <<reservedPages, committedPages, bump_ptr, attempts>>
  /\ ReserveFrame

\* (void*)systematic_bump_ptr(): the argument of VirtualAlloc is read from
\* the cursor, a plain size_t that every thread shares.
ReserveRead(t) ==
  /\ Running
  /\ rsv[t].pc = "read"
  /\ rsv' = [rsv EXCEPT ![t].addr = bump_ptr, ![t].pc = "alloc"]
  /\ UNCHANGED <<reservedPages, committedPages, bump_ptr, attempts>>
  /\ ReserveFrame

\* p = VirtualAlloc(addr, size, flags, PAGE_READWRITE): one attempt.
ReserveAlloc(t) ==
  /\ Running
  /\ rsv[t].pc = "alloc"
  /\ LET M == VirtualAllocAt(Machine, rsv[t].addr, rsv[t].size,
                             Flags(rsv[t].committed), "PAGE_READWRITE", TRUE)
         r == M.rets[1]
     IN /\ reservedPages' = M.res
        /\ committedPages' = M.com
        /\ rsv' = [rsv EXCEPT ![t].p = r, ![t].pc = "load"]
        /\ attempts' =
             [attempts EXCEPT
                !.sum = @ + rsv[t].size,
                !.wins = IF r # NULL THEN @ \cup {rsv[t].addr} ELSE @,
                !.twice = @ \/ (r # NULL /\ rsv[t].addr \in attempts.wins)]
  /\ UNCHANGED bump_ptr
  /\ ReserveFrame

\* systematic_bump_ptr() += size, first half: the cursor is loaded.  The
\* addition is not atomic, and another thread may run between its halves.
ReserveLoad(t) ==
  /\ Running
  /\ rsv[t].pc = "load"
  /\ rsv' = [rsv EXCEPT ![t].tmp = bump_ptr, ![t].pc = "store"]
  /\ UNCHANGED <<reservedPages, committedPages, bump_ptr, attempts>>
  /\ ReserveFrame

\* systematic_bump_ptr() += size, second half: the sum is stored; then
\* retries--, and the loop goes on while (p == nullptr && retries > 0), or
\* reserve returns p.
ReserveStore(t) ==
  /\ Running
  /\ rsv[t].pc = "store"
  /\ bump_ptr' = AddrAdd(rsv[t].tmp, rsv[t].size)
  /\ rsv' = [rsv EXCEPT
               ![t].retries = @ - 1,
               ![t].pc = IF rsv[t].p = NULL /\ rsv[t].retries - 1 > 0
                           THEN "read"
                           ELSE "returned"]
  /\ attempts' = [attempts EXCEPT
                    !.fell = @ \/ Below(AddrAdd(rsv[t].tmp, rsv[t].size),
                                        bump_ptr)]
  /\ UNCHANGED <<reservedPages, committedPages>>
  /\ ReserveFrame

\* A build with USE_SYSTEMATIC_TESTING.
InitB ==
  /\ status = "running"
  /\ NotifyInit
  /\ \E b \in Builds : b.USE_SYSTEMATIC_TESTING /\ Compiled(b)
  /\ MemInit

NextB ==
  \/ \E t \in Threads : ReserveEnter(t)
  \/ \E t \in Threads : ReserveRead(t)
  \/ \E t \in Threads : ReserveAlloc(t)
  \/ \E t \in Threads : ReserveLoad(t)
  \/ \E t \in Threads : ReserveStore(t)

SpecBump == InitB /\ [][NextB]_vars


----------------------------------------------------------------------------
(* Properties of the subscription and of the notifier *)

InCtor(t) == pc[t] \in {"exchange", "create", "wait"}

\* C1: however many constructors run on however many threads, the OS
\* subscription (CreateMemoryResourceNotification, then
\* RegisterWaitForSingleObject) is made at most once at any time and exactly
\* once when no constructor is in progress; only the constructor whose
\* exchange read false makes an OS call, and once a constructor has done its
\* exchange the flag is true for good.
ExactlyOnceSubscription ==
  /\ createCalls <= 1
  /\ waitCalls <= createCalls
  /\ Cardinality(flipper) <= 1
  /\ osCallers \subseteq flipper
  /\ ((\E t \in Threads : pc[t] \in {"create", "wait"})
        => registered_for_notifications)
  /\ ((nctors >= 1 /\ \A t \in Threads : ~InCtor(t))
        => registered_for_notifications)
  /\ (registered_for_notifications => Cardinality(flipper) = 1)
  /\ (nctors >= 1 /\ \A t \in Threads : ~InCtor(t))
       => (createCalls = 1 /\ waitCalls = 1 /\ osCallers = flipper)

\* Another constructor has come and gone while the subscribing one is between
\* its two OS calls.
ExactlyOnceWitness ==
  /\ nctors >= 2
  /\ \E t \in Threads : pc[t] = "wait"
  /\ createCalls = 1
  /\ waitCalls = 0

\* Position i and later of the list: how often client c is there.
CountFrom(list, i, c) == Cardinality({j \in i..Len(list) : list[j] = c})

\* C9, as claimed: when a delivery ends, every client has been invoked exactly
\* as often as it had been registered before the delivery began.
FanOutExactlyRegisteredBefore ==
  dpc = "done" => \A c \in Clients : invoked[c] = appendedAtBegin[c]

\* C9, amended: when a delivery ends, every client has been invoked at least
\* as often as it had been registered before the delivery began and at most
\* as often as it has been registered by then; exactly as often as registered
\* before the delivery began when no registration was added during the
\* delivery (once: once, twice: twice), and a client never registered is
\* never invoked.
FanOutNoDeduplication ==
  /\ \A c \in Clients : appended[c] = 0 => invoked[c] = 0
  /\ dpc = "done" =>
       \A c \in Clients :
         /\ appendedAtBegin[c] <= invoked[c]
         /\ invoked[c] <= appended[c]
         /\ (~raced => invoked[c] = appendedAtBegin[c])

\* A delivery without a racing registration has ended: one client was
\* registered twice and invoked twice, another never registered.
FanOutWitness ==
  /\ dpc = "done"
  /\ ~raced
  /\ \E c \in Clients : appendedAtBegin[c] = 2 /\ invoked[c] = 2
  /\ \E c \in Clients : appended[c] = 0

\* C10: a registration that returned before a delivery began has its client
\* invoked by that delivery, and while a delivery is in progress every client
\* registered before it began is either invoked already or still ahead of the
\* dispatcher, whatever registrations race with it.
RegistrationVisible ==
  /\ dpc = "done" =>
       \A c \in Clients : invoked[c] >= returnedAtBegin[c]
  /\ dpc = "running" =>
       \A c \in Clients :
         invoked[c] + CountFrom(low_memory_callbacks, dcur, c)
           >= appendedAtBegin[c]

\* A delivery that began after a registration had returned, and raced with
\* another registration, has ended.
RegistrationVisibleWitness ==
  /\ dpc = "done"
  /\ raced
  /\ \E c \in Clients : returnedAtBegin[c] >= 1 /\ invoked[c] >= 1

----------------------------------------------------------------------------
(* Properties of reserve, notify_using, notify_not_using and zero *)

\* C2: with the aligned and the plain reserve, a reserve call makes exactly
\* one OS reservation call; when that call fails the error handler is invoked
\* exactly once and the process is aborted, and a reserve that returns
\* returns the region the OS gave, never null.
FatalReserve ==
  (strategy \in {"ExtendedAligned", "Plain"} /\ last.op = "reserve") =>
    /\ Len(last.calls) = 1
    /\ "MEM_RESERVE" \in last.calls[1].type
    /\ (last.rets[1] = NULL => (last.errors = 1 /\ status = "aborted"))
    /\ (last.rets[1] # NULL =>
          (last.errors = 0 /\ status = "running" /\ last.ret = last.rets[1]))
    /\ (status = "running" => last.ret # NULL)

\* A reserve whose OS call failed has aborted the process.
FatalReserveWitness ==
  /\ strategy \in {"ExtendedAligned", "Plain"}
  /\ last.op = "reserve"
  /\ last.rets = <<NULL>>
  /\ last.errors = 1
  /\ status = "aborted"

\* C3: the simulated reserve never invokes the error handler and always
\* returns; it returns the result of its last attempt, every attempt before
\* the last one failed, and so it returns null exactly when all its attempts
\* failed.
SimulatedReturnsNull ==
  (strategy = "Simulated" /\ last.op = "reserve") =>
    /\ last.errors = 0
    /\ status = "running"
    /\ Len(last.rets) >= 1
    /\ last.ret = last.rets[Len(last.rets)]
    /\ \A i \in 1..(Len(last.rets) - 1) : last.rets[i] = NULL
    /\ (last.ret = NULL <=> \A i \in 1..Len(last.rets) : last.rets[i] = NULL)

\* A simulated reserve has returned null after all its attempts failed.
SimulatedReturnsNullWitness ==
  /\ strategy = "Simulated"
  /\ last.op = "reserve"
  /\ last.ret = NULL
  /\ Len(last.rets) > 1
  /\ status = "running"

\* C4: the aligned reserve makes one OS call, with the size, the flags and
\* the protection of the request and with the alignment 65536 when the
\* alignment asked for is smaller (the call of a request for 65536), and the
\* alignment asked for otherwise.
AlignmentFloor ==
  (strategy = "ExtendedAligned" /\ last.op = "reserve") =>
    /\ last.calls =
         <<OsCall("VirtualAlloc2FromApp", NULL, last.size, Flags(last.flag),
                  "PAGE_READWRITE",
                  IF last.align < 65536 THEN 65536 ELSE last.align)>>
    /\ last.align < 65536 =>
         last.calls = reserve_aligned(Machine, last.flag, last.size, 65536,
                                      0).calls

\* A request for less than 64 KiB of alignment has been served.
AlignmentFloorWitness ==
  /\ strategy = "ExtendedAligned"
  /\ last.op = "reserve"
  /\ last.align < 65536
  /\ last.ret # NULL
  /\ status = "running"

\* C5: when zero(p, size) returns, on either path, every byte of
\* [p, p + size) reads as zero and every page of the range is committed.
ZeroLeavesZero ==
  (last.op = "zero" /\ status = "running") =>
    /\ last.path \in {"recommit", "memset"}
    /\ ~Dirty(mem, last.p, last.size)
    /\ PagesOf(last.p, last.size) \subseteq committedPages

\* zero has filled a range that held a non-zero byte, byte by byte.
ZeroLeavesZeroWitness ==
  /\ last.op = "zero"
  /\ status = "running"
  /\ last.path = "memset"
  /\ last.dirty

\* C6: a zero(p, size) step changes no byte outside [p, p + size), reserves
\* and releases nothing, and changes the commit state of no page that is not
\* inside the range.
ZeroFrame ==
  [][last'.op = "zero" =>
       /\ reservedPages' = reservedPages
       /\ \A q \in reservedPages :
            q \notin PagesInside(last'.p, last'.size) =>
              (q \in committedPages' <=> q \in committedPages)
       /\ \A a \in DOMAIN mem \cup DOMAIN mem' :
            ~InRange(a, last'.p, last'.size) =>
              Load(mem', a) = Load(mem, a)]_vars

\* zero has filled a range that held a non-zero byte, and a non-zero byte of
\* the same page, outside the range, is still there.
ZeroFrameWitness ==
  /\ last.op = "zero"
  /\ status = "running"
  /\ last.dirty
  /\ \E a \in DOMAIN mem :
       /\ ~InRange(a, last.p, last.size)
       /\ PageOf(a) \in PagesOf(last.p, last.size)

\* The last call was on all of a region that reserve returned committed, of
\* a size that is a multiple of the page size.
OnCommittedRegion ==
  \E i \in DOMAIN regions :
    /\ regions[i].committed
    /\ regions[i].size % OS_PAGE_SIZE = 0
    /\ regions[i].base = last.p
    /\ regions[i].size = last.size

\* C7: after reserve(S, committed), stores into the region,
\* notify_not_using(region) and then notify_using<YesZero>(region), every
\* byte of the region reads as zero (and the region is committed).
ZeroAfterRecycle ==
  (/\ last.op = "notify_using"
   /\ last.flag = "YesZero"
   /\ prev.op = "notify_not_using"
   /\ status = "running"
   /\ OnCommittedRegion) =>
    /\ ~Dirty(mem, last.p, last.size)
    /\ PagesOf(last.p, last.size) \subseteq committedPages

\* The region held a non-zero byte when notify_not_using was called.
ZeroAfterRecycleWitness ==
  /\ last.op = "notify_using"
  /\ last.flag = "YesZero"
  /\ prev.op = "notify_not_using"
  /\ prev.dirty
  /\ status = "running"
  /\ OnCommittedRegion

\* C8: a notify_using(p, size) call that passes its alignment check makes
\* exactly one OS call, a commit of (p, size) with read-write protection, and
\* a notify_not_using(p, size) call that passes its check makes exactly one
\* OS call, a decommit of (p, size).
OneCallEach ==
  /\ (last.op = "notify_using" /\ status # "assert_failed") =>
       last.calls = <<OsCall("VirtualAlloc", last.p, last.size,
                             {"MEM_COMMIT"}, "PAGE_READWRITE", 0)>>
  /\ (last.op = "notify_not_using" /\ status # "assert_failed") =>
       last.calls = <<OsCall("VirtualFree", last.p, last.size,
                             {"MEM_DECOMMIT"}, "none", 0)>>

\* reserve(2 * page size, not committed) returned B; notify_using and then
\* notify_not_using of [B, B + 2 * page size) have made one call each.
OneCallEachWitness ==
  /\ last.op = "notify_not_using"
  /\ prev.op = "notify_using"
  /\ status = "running"
  /\ Len(last.calls) = 1
  /\ \E i \in DOMAIN regions :
       /\ ~regions[i].committed
       /\ regions[i].size = 2 * OS_PAGE_SIZE
       /\ regions[i].base = last.p
       /\ regions[i].size = last.size
  /\ PagesOf(last.p, last.size) \cap committedPages = {}

----------------------------------------------------------------------------
(* Preconditions, the commit state of pages, the cursor, the paths of zero *)

\* C11: notify_not_using(p, size) fails its assertion exactly when p or size
\* is not a multiple of the page size, and then calls nothing;
\* notify_using<zero_mem>(p, size) fails its assertion exactly when p or size
\* is not a multiple of the page size and zero_mem is not NoZero; with NoZero
\* a misaligned region passes and the commit call is issued over (p, size).
AlignmentAsymmetry ==
  /\ last.op = "notify_not_using" =>
       /\ status = "assert_failed" <=> ~is_aligned_block(last.p, last.size)
       /\ status = "assert_failed" => last.calls = << >>
  /\ last.op = "notify_using" =>
       /\ status = "assert_failed" <=>
            (~is_aligned_block(last.p, last.size) /\ last.flag # "NoZero")
       /\ status = "assert_failed" => last.calls = << >>
       /\ (~is_aligned_block(last.p, last.size) /\ last.flag = "NoZero") =>
            last.calls = <<OsCall("VirtualAlloc", last.p, last.size,
                                  {"MEM_COMMIT"}, "PAGE_READWRITE", 0)>>

\* notify_using<NoZero> has committed a region that is not page-aligned.
AlignmentAsymmetryWitness ==
  /\ last.op = "notify_using"
  /\ last.flag = "NoZero"
  /\ ~is_aligned_block(last.p, last.size)
  /\ status = "running"
  /\ PagesOf(last.p, last.size) \subseteq committedPages

\* The commit call of the step covers page q.
CommitCovers(l, q) ==
  \E i \in DOMAIN l.calls :
    /\ l.calls[i].fn = "VirtualAlloc"
    /\ l.calls[i].type = {"MEM_COMMIT"}
    /\ l.rets[i] # NULL
    /\ q \in PagesOf(l.calls[i].addr, l.calls[i].size)

\* C12: every page of a region that reserve<true> returns is committed and
\* every page of a region that reserve<false> returns is reserved and not
\* committed; a page becomes committed only by a committed reserve or by a
\* notify_using call (also the one inside zero) whose range covers it; a
\* notify_not_using that returns leaves every page of its range reserved and
\* not committed, leaves the set of reserved pages as it was and changes the
\* commit state of no page outside its range.
CommitStateMachine ==
  [][/\ (last'.op = "reserve" /\ status' = "running" /\ last'.ret # NULL) =>
          LET qs == PagesOf(last'.ret, last'.size)
          IN /\ qs \subseteq reservedPages'
             /\ qs \cap reservedPages = {}
             /\ last'.flag => qs \subseteq committedPages'
             /\ ~last'.flag => qs \cap committedPages' = {}
      /\ \A q \in committedPages' \ committedPages :
           \/ last'.op = "reserve" /\ last'.flag
           \/ /\ last'.op \in {"notify_using", "zero"}
              /\ q \in PagesOf(last'.p, last'.size)
              /\ CommitCovers(last', q)
      /\ (last'.op = "notify_not_using" /\ status' = "running") =>
           LET ps == PagesOf(last'.p, last'.size)
           IN /\ ps \subseteq reservedPages'
              /\ ps \cap committedPages' = {}
              /\ reservedPages' = reservedPages
              /\ committedPages' = committedPages \ ps]_vars

\* A region reserved without commit: its first page was committed by
\* notify_using and decommitted again by notify_not_using, and its second page
\* is still as reserve left it.
CommitStateMachineWitness ==
  /\ last.op = "notify_not_using"
  /\ prev.op = "notify_using"
  /\ status = "running"
  /\ last.size = OS_PAGE_SIZE
  /\ \E i \in DOMAIN regions :
       /\ ~regions[i].committed
       /\ regions[i].size = 2 * OS_PAGE_SIZE
       /\ regions[i].base = last.p
       /\ PagesOf(regions[i].base, regions[i].size) \subseteq reservedPages
       /\ PagesOf(regions[i].base, regions[i].size) \cap committedPages = {}

\* C14: a simulated reserve(size) makes k attempts, 1 <= k <= 1000; attempt i
\* is issued at the cursor's value at entry plus (i - 1) * size, every attempt
\* before the last one failed, fewer than 1000 attempts are made only when
\* the last one succeeded, and the call leaves the cursor k * size above its
\* value at entry; before the first call the cursor is 0x400000000000.
SimulatedCursor ==
  [][/\ last.op = "none" => bump_ptr = <<BumpUnit, 0>>
     /\ (strategy = "Simulated" /\ last'.op = "reserve") =>
          LET k == Len(last'.calls)
          IN /\ 1 <= k
             /\ k <= 1000
             /\ \A i \in 1..k :
                  /\ last'.calls[i].fn = "VirtualAlloc"
                  /\ last'.calls[i].addr =
                       AddrAdd(bump_ptr, (i - 1) * last'.size)
                  /\ last'.calls[i].size = last'.size
                  /\ i < k => last'.rets[i] = NULL
             /\ k < 1000 => last'.rets[k] # NULL
             /\ bump_ptr' = AddrAdd(bump_ptr, k * last'.size)]_vars

\* A simulated reserve has succeeded at its second attempt.
SimulatedCursorWitness ==
  /\ strategy = "Simulated"
  /\ last.op = "reserve"
  /\ Len(last.calls) = 2
  /\ last.ret # NULL
  /\ bump_ptr = AddrAdd(<<BumpUnit, 0>>, 2 * last.size)

\* C18: zero<false>(p, size) decommits and recommits exactly when p and size
\* are multiples of the page size, and otherwise fills byte by byte without
\* an OS call; zero<true>(p, size) on a misaligned region fails the assertion,
\* calls nothing and fills nothing; on the decommit/recommit path the calls
\* are the decommit of (p, size) and then the commit of (p, size), and
\* nothing else (the commit is not made when the decommit failed).
ZeroPathSelection ==
  last.op = "zero" =>
    LET aligned == is_aligned_block(last.p, last.size)
        decommit == OsCall("VirtualFree", last.p, last.size,
                           {"MEM_DECOMMIT"}, "none", 0)
        commit == OsCall("VirtualAlloc", last.p, last.size, {"MEM_COMMIT"},
                         "PAGE_READWRITE", 0)
    IN /\ ~last.flag => (last.path = "recommit" <=> aligned)
       /\ ~last.flag => (last.path = "memset" <=> ~aligned)
       /\ last.flag => last.path # "memset"
       /\ (last.flag /\ ~aligned) =>
            (status = "assert_failed" /\ last.calls = << >>)
       /\ aligned => last.path = "recommit"
       /\ last.path = "memset" => last.calls = << >>
       /\ last.path = "recommit" =>
            /\ last.calls \in {<<decommit>>, <<decommit, commit>>}
            /\ Len(last.calls) = 1 => (~last.rets[1] /\ status = "aborted")

\* zero<true> has decommitted and recommitted a page-aligned range that held
\* a non-zero byte.
ZeroPathSelectionWitness ==
  /\ last.op = "zero"
  /\ last.flag
  /\ last.path = "recommit"
  /\ Len(last.calls) = 2
  /\ last.calls[1].fn = "VirtualFree"
  /\ last.calls[2].fn = "VirtualAlloc"
  /\ last.dirty
  /\ status = "running"

\* The bits of pal_features agree with the reserve of the build.
Consistent(features, reserve, b) ==
  /\ reserve \in Strategies
  /\ "LowMemoryNotification" \in features
  /\ "AlignedAllocation" \in features <=> reserve = "ExtendedAligned"
  /\ b.USE_SYSTEMATIC_TESTING =>
       (reserve = "Simulated" /\ "AlignedAllocation" \notin features)

\* C13: in every build the low-memory-notification bit of pal_features is
\* set, the aligned-allocation bit is set exactly when the reserve with an
\* alignment argument is the one compiled in, it is not set in a build with
\* USE_SYSTEMATIC_TESTING whatever the Windows version, and no step changes
\* pal_features.
CapabilitiesFixed ==
  [][/\ pal_features' = pal_features
     /\ Consistent(pal_features, strategy, build)
     /\ Consistent(pal_features', strategy', build')]_vars

\* A build with USE_SYSTEMATIC_TESTING for Windows 10 RS5 has reserved a
\* region: the aligned-allocation bit is not set.
CapabilitiesFixedWitness ==
  /\ build.USE_SYSTEMATIC_TESTING
  /\ build.WIN10_RS5
  /\ strategy = "Simulated"
  /\ last.op = "reserve"
  /\ last.ret # NULL
  /\ pal_features = {"LowMemoryNotification"}

----------------------------------------------------------------------------
(* The subscription when the OS refuses it *)

\* C15: the constructors never invoke the error handler; a constructor that
\* has started the subscription can always go on to its end; and once the
\* subscription calls have been made and have failed (no handle, or no wait
\* bound), the flag is still true, the calls have been made once each, and no
\* constructor is about to make them again.
FailedSubscriptionNotRetried ==
  /\ status = "running"
  /\ last.errors = 0
  /\ createCalls <= 1
  /\ waitCalls <= 1
  /\ \A t \in Threads :
       pc[t] \in {"create", "wait"} =>
         ENABLED (CtorCreate(t) \/ CtorRegisterWait(t))
  /\ (createCalls = 1 /\ lowMemoryObject = "NULL") =>
       /\ registered_for_notifications
       /\ \A t \in Threads : pc[t] # "create"
  /\ (waitCalls = 1 /\ ~waitBound) =>
       /\ registered_for_notifications
       /\ createCalls = 1
       /\ \A t \in Threads : pc[t] \notin {"create", "wait"}

\* The OS gave no handle and bound no wait; the first constructor and two
\* later ones have returned.
FailedSubscriptionWitness ==
  /\ createCalls = 1
  /\ waitCalls = 1
  /\ lowMemoryObject = "NULL"
  /\ ~waitBound
  /\ registered_for_notifications
  /\ nctors >= 3
  /\ \A t \in Threads : pc[t] = "idle"

\* C16, as claimed: no constructor has returned while the subscription has
\* not yet stored the handle, so that every expensive_low_memory_check
\* queries a handle that the subscription has created and stored.
HandleStoredBeforeReturn ==
  /\ \A t \in Threads : instances[t] => createCalls >= 1
  /\ query.by # 0 => query.stored

----------------------------------------------------------------------------
(* The cursor of the simulated reserve under concurrent calls *)

\* C17, as claimed: the cursor never decreases, no two successful attempts
\* were issued at the same cursor value, and once every reserve call has
\* returned the cursor is 0x400000000000 plus the sum of size over every
\* attempt made, also when the calls ran concurrently on different threads.
CursorCountsEveryAttempt ==
  /\ ~attempts.fell
  /\ ~attempts.twice
  /\ (\A t \in Threads : rsv[t].pc \in {"idle", "returned"}) =>
       bump_ptr = AddrAdd(<<BumpUnit, 0>>, attempts.sum)

====
